---- MODULE Spec2Model ----
(***************************************************************************)
(* State-machine model of the YouTube Detox content script                 *)
(* (src/chrome/content.js): ShortsBlocker, NavigationButtonRemover,        *)
(* ScrollPreventer, SavedTabsUI and YouTubeDetoxController, together with  *)
(* the parts of the browser they drive (timers, MutationObserver records,  *)
(* event listener lists, inline styles).                                   *)
(*                                                                         *)
(* JavaScript runs every handler to completion, so each handler is one     *)
(* action.  MutationObserver callbacks are microtasks: while records are   *)
(* queued no other task runs.                                              *)
(***************************************************************************)
EXTENDS Integers, Sequences, FiniteSets, TLC

(* ------------------------------ bounds --------------------------------- *)
NumElems == 3          \* shorts containers the host page may show
NumButtons == 1        \* shorts navigation buttons of the host page
MaxInFlight == 1       \* GET_SAVED_TABS requests awaiting their response
MaxHostEvents == 2     \* events of the host page, of the user and failed
                       \* requests in one run
MaxClock == 1          \* milliseconds the background script's clock advances
MaxOpen == 2           \* tabs open at a time, unless very many are opened at once

(* --------------------------- program constants ------------------------- *)
DEBOUNCE_DELAY == 1000
NAV_DELAY == 100
NAV_CALLBACK_DELAY == 0

OVERLAY_CLASS == "yt-detox-overlay"
SAVED_TABS_CONTAINER_ID == "yt-detox-saved-tabs"

HomeUrl == "https://www.youtube.com/"
WatchUrl == "https://www.youtube.com/watch?v=a"
ShortsUrl == "https://www.youtube.com/shorts/b"
Urls == {HomeUrl, WatchUrl, ShortsUrl}

isShortsPage(url) == url \in {ShortsUrl}
isHomePage(url) == url \in {HomeUrl}

Elems == 1..NumElems
Buttons == 1..NumButtons
OverflowValues == {"", "scroll", "hidden"}

VARIABLES
  windowUrl,         \* window.location.href
  hasSupport,        \* the browser's selector engine implements :has()
  inDoc,             \* inDoc[e]: element e is attached (has a parentNode)
  display,           \* display[e]: e.style.display
  overlays,          \* overlays[e]: style.display of each overlay inserted for e
  bodyOverflow,      \* document.body.style.overflow
  listeners,         \* event listener list of document and window
  buttonDisplay,     \* buttonDisplay[b]: b.style.display
  timers,            \* the browser's active timeouts
  insertThrows,      \* elements whose parent throws from insertBefore()
  records,           \* mutation records queued for the observer
  inflight,          \* GET_SAVED_TABS requests without a response yet
  phase,             \* "loading" until initialize() got its response
  hiddenShorts,      \* ShortsBlocker.hiddenShorts
  sessionVisible,    \* ShortsBlocker.sessionVisible
  removedButtons,    \* NavigationButtonRemover.removedButtons
  isActive,          \* ScrollPreventer.isActive
  originalOverflow,  \* ScrollPreventer.originalOverflow
  container,         \* SavedTabsUI.container # null (then it is attached)
  observer,          \* YouTubeDetoxController.observer # null
  navListener,       \* history.pushState/replaceState wrapped, popstate heard
  extensionEnabled,  \* YouTubeDetoxController.extensionEnabled
  currentUrl,        \* YouTubeDetoxController.currentUrl
  isProcessing,      \* YouTubeDetoxController.isProcessing
  timeoutId,         \* timeoutId of the debounce closure (0: undefined)
  lastPass,          \* history: what the last processPage() call did
  revealedAtNav,     \* history: elements revealed when the last reset ran
  passSinceNav,      \* history: a pass ran on a non-shorts URL since that reset
  batchesSinceRun,   \* history: qualifying batches since the last debounced run
  preEnable,         \* history: body overflow just before the last enable()
  lastCall,          \* history: the ScrollPreventer method called last
  passes,            \* history: processPage() calls that got past the gate
  pairPasses,        \* history: passes run so far by the two triggers of a
                     \* navigation-delay timer and a debounce timer that
                     \* were pending together
  lastNav,           \* history: the branch the last handleNavigation() took
  stateFailed,       \* history: GET_EXTENSION_STATE got no success response
  buttonWrites,      \* history: buttonWrites[b]: writes of b.style.display
                     \* since the last NavigationButtonRemover.reset()
  sinceBatch,        \* history: the time passed, while a debounce timer was
                     \* pending, since the last qualifying batch
  lastToggle,        \* history: the toggles of one overlay in a row within
                     \* one session, and the element's state before them
  hostEvents,        \* history: events of the host page, of the user and
                     \* failed requests so far
  storedTabs,        \* chrome.storage.local: the value of the key savedTabs
  openTabs,          \* the browser's YouTube tabs (their URLs), oldest first
  clock,             \* Date.now() of the background script
  call,              \* the closeAndSaveAllTabs() call in progress, if any
  lastResult,        \* history: what the last closeAndSaveAllTabs() returned
  nextId,            \* the ids extractTabMetadata() has made so far, plus one
  del,               \* the deleteTab() call in progress: its position, its
                     \* tabId and the list it read
  lastDelete,        \* history: the last deleteTab() that returned, its result
  lastSaved          \* history: the ids the last successful saveTabs() wrote

domVars == <<windowUrl, hasSupport, inDoc, insertThrows, display, overlays,
             bodyOverflow, listeners, buttonDisplay, timers, records, inflight,
             phase>>
objVars == <<hiddenShorts, sessionVisible, removedButtons, isActive,
             originalOverflow, container, observer, navListener,
             extensionEnabled, currentUrl, isProcessing, timeoutId>>
histVars == <<lastPass, revealedAtNav, passSinceNav, batchesSinceRun,
              preEnable, lastCall, passes, pairPasses, lastNav, stateFailed,
              buttonWrites, lastToggle, sinceBatch>>
delVars == <<del, lastDelete>>
storeVars == <<storedTabs, openTabs, clock, call, lastResult, nextId, delVars,
               lastSaved>>
contentVars == <<domVars, objVars, histVars>>
vars == <<domVars, objVars, histVars, hostEvents, storeVars>>

(* ------------------------- nodes and mutation records ------------------ *)
(* A node is described by what the observer's filter reads of it: its id,  *)
(* its class, whether it carries data-yt-detox, and the marked ancestor    *)
(* (if any) that closest() finds above it.                                 *)
HostNode == [id |-> "", class |-> "", detox |-> FALSE, within |-> ""]
ContainerChildNode == [id |-> "", class |-> "", detox |-> FALSE, within |-> SAVED_TABS_CONTAINER_ID]

\* an overlay built without its class and its data attribute
createOverlayUnmarked == HostNode

createOverlay == [id |-> "", class |-> OVERLAY_CLASS, detox |-> TRUE, within |-> ""]

createContainer == [id |-> SAVED_TABS_CONTAINER_ID, class |-> "", detox |-> FALSE, within |-> ""]

\* node.closest(sel): the node itself or an ancestor matches
closestId(node, id) == node.id = id \/ node.within = id
closestClass(node, class) == node.class = class \/ node.within = class

\* a childList record; by is history: the code that made the write
Record(target, added, removed, by) ==
  [target |-> target, added |-> added, removed |-> removed, by |-> by]

\* a filter that keeps every record
IsRelevantAlways(mutation) == TRUE

\* the callback's filter (mutations.filter(...)) applied to one record
IsRelevant(mutation) ==
  IF closestId(mutation.target, SAVED_TABS_CONTAINER_ID)
       \/ closestClass(mutation.target, OVERLAY_CLASS)
       \/ mutation.target.detox
  THEN FALSE
  ELSE IF \E node \in mutation.added :
            node.id = SAVED_TABS_CONTAINER_ID \/ node.class = OVERLAY_CLASS \/ node.detox
       THEN FALSE
       ELSE TRUE

\* records reach the queue only while an observer observes document.body
Observed(observing, rs) == IF observing THEN rs ELSE {}

(* ------------------------------ selectors ------------------------------ *)
\* f applied to the value of v, which is computed once (const x = v)
Bind(v, f(_)) == CHOOSE r \in {f(x) : x \in {v}} : TRUE

SHORTS_CONTAINERS ==
  << "[is-shorts]", "ytd-shorts", "ytd-reel-video-renderer",
     "ytd-reel-shelf-renderer", "[aria-label*=Shorts]", "[aria-label*=shorts]",
     "ytd-rich-shelf-renderer[is-shorts]",
     "ytd-rich-item-renderer:has([aria-label*=Shorts])" >>

\* the host page's shorts containers: which selectors each one matches
MatchedBy(e) ==
  CASE e = 1 -> {"[is-shorts]", "ytd-rich-shelf-renderer[is-shorts]"}
    [] e = 2 -> {"ytd-reel-shelf-renderer"}
    [] OTHER -> {"[aria-label*=Shorts]", "ytd-rich-item-renderer:has([aria-label*=Shorts])"}

\* a selector the engine cannot parse makes querySelectorAll throw
Unparsable(selector) ==
  \/ selector = ""
  \/ selector = "ytd-rich-item-renderer:has([aria-label*=Shorts])" /\ ~hasSupport

RECURSIVE InDocOrder(_, _)
InDocOrder(S, from) ==
  IF from > NumElems THEN << >>
  ELSE (IF from \in S THEN <<from>> ELSE << >>) \o InDocOrder(S, from + 1)

\* document.querySelectorAll(selector): attached matches in document order
querySelectorAll(selector) ==
  IF Unparsable(selector) THEN [threw |-> TRUE, nodes |-> << >>]
  ELSE [threw |-> FALSE,
        nodes |-> InDocOrder({e \in Elems : inDoc[e] /\ selector \in MatchedBy(e)}, 1)]

safeQuerySelectorAll(selector) ==
  Bind(querySelectorAll(selector),
       LAMBDA elements : IF elements.threw
                         THEN querySelectorAll("")   \* the catch block's own query
                         ELSE elements)

\* [...new Set(s)]: a Set keeps its members in insertion order, so every
\* member stays at the place of its first occurrence
Dedup(s) ==
  Bind({i \in 1..Len(s) : \A j \in 1..(i - 1) : s[j] # s[i]},
       LAMBDA first :
         [k \in 1..Cardinality(first) |->
            s[CHOOSE i \in first : Cardinality({j \in first : j < i}) = k - 1]])

\* allShorts after the push of the results of the selectors from the i-th on
RECURSIVE CollectNodes(_, _)
CollectNodes(results, i) ==
  IF i > Len(results) THEN << >>
  ELSE results[i].nodes \o CollectNodes(results, i + 1)

\* the for loop over the selectors from the i-th on: an exception that
\* leaves one safeQuerySelectorAll() call leaves the loop
CollectShorts(i) ==
  Bind([j \in i..Len(SHORTS_CONTAINERS) |-> safeQuerySelectorAll(SHORTS_CONTAINERS[j])],
       LAMBDA results :
         IF \E j \in DOMAIN results : results[j].threw
         THEN [threw |-> TRUE, nodes |-> << >>]
         ELSE [threw |-> FALSE, nodes |-> CollectNodes(results, i)])

findShortsElements ==
  Bind(CollectShorts(1),
       LAMBDA allShorts : IF allShorts.threw THEN allShorts
                          ELSE [threw |-> FALSE, nodes |-> Dedup(allShorts.nodes)])

(* ----------------------------- ShortsBlocker --------------------------- *)
(* The operators work on sb: the two tracking sets together with the DOM   *)
(* state a ShortsBlocker method writes.                                    *)
ShortsState ==
  [hiddenShorts |-> hiddenShorts, sessionVisible |-> sessionVisible,
   display |-> display, overlays |-> overlays, written |-> {}]

\* what the page shows of an overlay with the inline display d: the style
\* sheet of the extension displays the overlay unless the inline style hides it
overlayShown(d) == d # "none"

\* a toggle that only ever reveals
toggleShortVisibilityShowOnly(sb, e, overlay) ==
  [sb EXCEPT !.display[e] = "",
             !.overlays[e][overlay] = "none",
             !.sessionVisible = @ \cup {e}]

\* a toggle that writes the display of every element
toggleShortVisibilityAll(sb, e, overlay) ==
  IF e \in sb.sessionVisible
  THEN [sb EXCEPT !.display = [o \in Elems |-> "none"],
                  !.overlays[e][overlay] = "flex",
                  !.sessionVisible = @ \ {e}]
  ELSE [sb EXCEPT !.display = [o \in Elems |-> ""],
                  !.overlays[e][overlay] = "none",
                  !.sessionVisible = @ \cup {e}]

\* toggleShortVisibility without its writes of overlay.style.display
toggleShortVisibilityElementOnly(sb, e, overlay) ==
  IF e \in sb.sessionVisible
  THEN [sb EXCEPT !.display[e] = "none",
                  !.sessionVisible = @ \ {e}]
  ELSE [sb EXCEPT !.display[e] = "",
                  !.sessionVisible = @ \cup {e}]

\* overlay is the index of the clicked overlay among those inserted for e
toggleShortVisibility(sb, e, overlay) ==
  IF e \in sb.sessionVisible
  THEN [sb EXCEPT !.display[e] = "none",
                  !.overlays[e][overlay] = "flex",
                  !.sessionVisible = @ \ {e}]
  ELSE [sb EXCEPT !.display[e] = "",
                  !.overlays[e][overlay] = "none",
                  !.sessionVisible = @ \cup {e}]

\* hideShort without the check of hiddenShorts
hideShortUnguarded(sb, e) ==
  IF e \in sb.sessionVisible THEN sb
  ELSE IF inDoc[e]
       THEN [sb EXCEPT !.overlays[e] = Append(@, ""),
                       !.written = @ \cup {Record(HostNode, {createOverlay}, {}, "hideShort")},
                       !.display[e] = "none",
                       !.hiddenShorts = @ \cup {e}]
       ELSE sb

\* hideShort without either check of the tracking sets
hideShortAlways(sb, e) ==
  IF inDoc[e]
  THEN [sb EXCEPT !.overlays[e] = Append(@, ""),
                  !.written = @ \cup {Record(HostNode, {createOverlay}, {}, "hideShort")},
                  !.display[e] = "none",
                  !.hiddenShorts = @ \cup {e}]
  ELSE sb

\* hideShort without the hiddenShorts.add
hideShortUntracked(sb, e) ==
  IF e \in sb.hiddenShorts THEN sb
  ELSE IF e \in sb.sessionVisible THEN sb
  ELSE IF inDoc[e]
       THEN [sb EXCEPT !.overlays[e] = Append(@, ""),
                       !.written = @ \cup {Record(HostNode, {createOverlay}, {}, "hideShort")},
                       !.display[e] = "none"]
       ELSE sb

\* hideShort with hiddenShorts.add ahead of the insertion
hideShortTracksFirst(sb, e) ==
  IF e \in sb.hiddenShorts THEN sb
  ELSE IF e \in sb.sessionVisible THEN sb
  ELSE IF inDoc[e] /\ e \notin insertThrows
       THEN [sb EXCEPT !.overlays[e] = Append(@, ""),
                       !.written = @ \cup {Record(HostNode, {createOverlay}, {}, "hideShort")},
                       !.display[e] = "none",
                       !.hiddenShorts = @ \cup {e}]
       ELSE [sb EXCEPT !.hiddenShorts = @ \cup {e}]

hideShort(sb, e) ==
  IF e \in sb.hiddenShorts THEN sb
  ELSE IF e \in sb.sessionVisible THEN sb
  ELSE IF inDoc[e] /\ e \notin insertThrows
       THEN [sb EXCEPT !.overlays[e] = Append(@, ""),
                       !.written = @ \cup {Record(HostNode, {createOverlay}, {}, "hideShort")},
                       !.display[e] = "none",
                       !.hiddenShorts = @ \cup {e}]
       ELSE sb     \* no parentNode, or the catch block after a throw

RECURSIVE hideEach(_, _)
hideEach(sb, shortsElements) ==
  IF shortsElements = << >> THEN sb
  ELSE Bind(hideShort(sb, Head(shortsElements)),
            LAMBDA hidden : hideEach(hidden, Tail(shortsElements)))

\* processShorts without the check of the location
processShortsEverywhere(sb, url) ==
  Bind(findShortsElements,
       LAMBDA shortsElements :
         IF shortsElements.threw THEN [sb |-> sb, threw |-> TRUE]
         ELSE [sb |-> hideEach(sb, shortsElements.nodes), threw |-> FALSE])

\* result: the new state and whether an exception left the method
processShorts(sb, url) ==
  IF isShortsPage(url) THEN [sb |-> sb, threw |-> FALSE]
  ELSE Bind(findShortsElements,
            LAMBDA shortsElements :
              IF shortsElements.threw THEN [sb |-> sb, threw |-> TRUE]
              ELSE [sb |-> hideEach(sb, shortsElements.nodes), threw |-> FALSE])

\* resetSession replacing hiddenShorts by an empty set as well
resetSessionBoth(sb) == [sb EXCEPT !.sessionVisible = {}, !.hiddenShorts = {}]

resetSession(sb) == [sb EXCEPT !.sessionVisible = {}]

(* ------------------------ NavigationButtonRemover ---------------------- *)
(* nb: the seen-set together with the styles the method writes; written   *)
(* is the set of buttons whose style the call wrote.                       *)
NavState ==
  [removedButtons |-> removedButtons, buttonDisplay |-> buttonDisplay,
   written |-> {}]

\* removeNavigationButtons without the check of removedButtons
removeNavigationButtonsUnguarded(nb, url) ==
  IF ~isShortsPage(url) THEN nb
  ELSE [removedButtons |-> nb.removedButtons \cup Buttons,
        buttonDisplay |-> [b \in Buttons |-> "none"],
        written |-> nb.written \cup Buttons]

\* every navigation selector parses; each button matches one of them
removeNavigationButtons(nb, url) ==
  IF ~isShortsPage(url) THEN nb
  ELSE [removedButtons |-> nb.removedButtons \cup Buttons,
        buttonDisplay |-> [b \in Buttons |->
                             IF b \notin nb.removedButtons THEN "none"
                             ELSE nb.buttonDisplay[b]],
        written |-> nb.written \cup (Buttons \ nb.removedButtons)]

(* ----------------------------- ScrollPreventer ------------------------- *)
Listener(target, type, capture) == [target |-> target, type |-> type, capture |-> capture]

\* EventTarget.addEventListener: an equal (type, callback, capture) is not added again
addEventListener(ls, l) ==
  IF \E i \in 1..Len(ls) : ls[i] = l THEN ls ELSE Append(ls, l)

removeEventListener(ls, l) == SelectSeq(ls, LAMBDA x : x # l)

ScrollState ==
  [isActive |-> isActive, originalOverflow |-> originalOverflow,
   overflow |-> bodyOverflow, listeners |-> listeners]

\* enable without the isActive check
enableUnguarded(s) ==
  [isActive |-> TRUE,
   originalOverflow |-> s.overflow,
   overflow |-> "hidden",
   listeners |->
     addEventListener(addEventListener(addEventListener(addEventListener(
       s.listeners,
       Listener("document", "wheel", TRUE)),
       Listener("document", "keydown", TRUE)),
       Listener("window", "wheel", FALSE)),
       Listener("window", "keydown", FALSE))]

enable(s) ==
  IF s.isActive THEN s
  ELSE [isActive |-> TRUE,
        originalOverflow |-> s.overflow,
        overflow |-> "hidden",
        listeners |->
          addEventListener(addEventListener(addEventListener(addEventListener(
            s.listeners,
            Listener("document", "wheel", TRUE)),
            Listener("document", "keydown", TRUE)),
            Listener("window", "wheel", FALSE)),
            Listener("window", "keydown", FALSE))]

\* disable writing the default style instead of the captured one
disableToDefault(s) ==
  IF ~s.isActive THEN s
  ELSE [isActive |-> FALSE,
        originalOverflow |-> s.originalOverflow,
        overflow |-> "",
        listeners |->
          removeEventListener(removeEventListener(removeEventListener(removeEventListener(
            s.listeners,
            Listener("document", "wheel", TRUE)),
            Listener("document", "keydown", TRUE)),
            Listener("window", "wheel", FALSE)),
            Listener("window", "keydown", FALSE))]

\* disable removing the document listeners without { capture: true }
disableNoCapture(s) ==
  IF ~s.isActive THEN s
  ELSE [isActive |-> FALSE,
        originalOverflow |-> s.originalOverflow,
        overflow |-> s.originalOverflow,
        listeners |->
          removeEventListener(removeEventListener(removeEventListener(removeEventListener(
            s.listeners,
            Listener("document", "wheel", FALSE)),
            Listener("document", "keydown", FALSE)),
            Listener("window", "wheel", FALSE)),
            Listener("window", "keydown", FALSE))]

disable(s) ==
  IF ~s.isActive THEN s
  ELSE [isActive |-> FALSE,
        originalOverflow |-> s.originalOverflow,
        overflow |-> s.originalOverflow,
        listeners |->
          removeEventListener(removeEventListener(removeEventListener(removeEventListener(
            s.listeners,
            Listener("document", "wheel", TRUE)),
            Listener("document", "keydown", TRUE)),
            Listener("window", "wheel", FALSE)),
            Listener("window", "keydown", FALSE))]

\* update without its else branch
updateEnableOnly(s, url) == IF isShortsPage(url) THEN enable(s) ELSE s

update(s, url) == IF isShortsPage(url) THEN enable(s) ELSE disable(s)

(* --------------------------------- timers ------------------------------ *)
Timer(id, cb, remaining) == [id |-> id, cb |-> cb, remaining |-> remaining]

\* an id no live timer has and no variable of the program still refers to
FreshId(ts, held) ==
  CHOOSE i \in 1..(Cardinality(ts) + 2) :
    /\ i \notin {t.id : t \in ts} \cup {held}
    /\ \A j \in 1..(i - 1) : j \in {t.id : t \in ts} \cup {held}

setTimeout(ts, held, cb, delay) == ts \cup {Timer(FreshId(ts, held), cb, delay)}

clearTimeout(ts, id) == {t \in ts : t.id # id}

\* debounce that leaves a pending timeout as it is (leading edge)
debounceKeepPending(d) ==
  IF \E t \in d.timers : t.id = d.timeoutId /\ t.cb = "debouncedProcess"
  THEN d
  ELSE LET id == FreshId(d.timers, 0)
       IN [timers |-> d.timers \cup {Timer(id, "debouncedProcess", DEBOUNCE_DELAY)},
           timeoutId |-> id]

\* debounce without clearTimeout
debounceNoClear(d) ==
  LET id == FreshId(d.timers, 0)
  IN [timers |-> d.timers \cup {Timer(id, "debouncedProcess", DEBOUNCE_DELAY)},
      timeoutId |-> id]

\* one call of the function debounce() returned: d = [timers, timeoutId]
debounce(d) ==
  LET cleared == clearTimeout(d.timers, d.timeoutId)
      id == FreshId(cleared, 0)
  IN [timers |-> cleared \cup {Timer(id, "debouncedProcess", DEBOUNCE_DELAY)},
      timeoutId |-> id]

Pending(cb) == {t \in timers : t.cb = cb}

(* ------------------------ YouTubeDetoxController ----------------------- *)
Stages == <<"scrollPreventer.update", "removeNavigationButtons",
            "processShorts", "savedTabsUI.refresh">>

\* The body of processPage()'s try block on location url: the state each
\* stage leaves, the stages that ran, and whether the catch block was entered.
processPage(url) ==
  Bind(processShorts(ShortsState, url),
       LAMBDA shorts :
         [scroll |-> update(ScrollState, url),
          nav |-> removeNavigationButtons(NavState, url),
          sb |-> shorts.sb,
          refresh |-> ~shorts.threw /\ isHomePage(url),
          ran |-> {Stages[1], Stages[2], Stages[3]}
                    \cup (IF ~shorts.threw /\ isHomePage(url) THEN {Stages[4]} ELSE {}),
          threw |-> IF shorts.threw THEN Stages[3] ELSE "none",
          due |-> {Stages[1], Stages[2], Stages[3]}
                    \cup (IF isHomePage(url) THEN {Stages[4]} ELSE {})])

passVars == <<isActive, originalOverflow, bodyOverflow, listeners,
              removedButtons, buttonDisplay, hiddenShorts, sessionVisible,
              display, overlays, records, inflight, isProcessing,
              lastPass, passSinceNav, preEnable, lastCall, passes,
              buttonWrites>>

\* processPage() past its gate: the try block and what it leaves behind
TryBlock(observing) ==
       \E p \in {processPage(windowUrl)} :   \* the one run of the body
          /\ p.refresh => inflight < MaxInFlight
          /\ isActive' = p.scroll.isActive
          /\ originalOverflow' = p.scroll.originalOverflow
          /\ bodyOverflow' = p.scroll.overflow
          /\ listeners' = p.scroll.listeners
          /\ removedButtons' = p.nav.removedButtons
          /\ buttonDisplay' = p.nav.buttonDisplay
          /\ hiddenShorts' = p.sb.hiddenShorts
          /\ sessionVisible' = p.sb.sessionVisible
          /\ display' = p.sb.display
          /\ overlays' = p.sb.overlays
          /\ records' = records \cup Observed(observing, p.sb.written)
          /\ inflight' = IF p.refresh THEN inflight + 1 ELSE inflight
          /\ lastPass' = [ran |-> p.ran, threw |-> p.threw, due |-> p.due,
                           kept |-> IF isShortsPage(windowUrl) \/ p.threw # "none"
                                    THEN {}
                                    ELSE {e \in hiddenShorts \ sessionVisible : inDoc[e]},
                           shorts |-> isShortsPage(windowUrl)]
          /\ passes' = passes + 1
          /\ buttonWrites' = [b \in Buttons |->
                                IF b \in p.nav.written THEN buttonWrites[b] + 1
                                ELSE buttonWrites[b]]
          /\ passSinceNav' = (passSinceNav \/ ~isShortsPage(windowUrl))
          /\ preEnable' = IF ~isActive /\ p.scroll.isActive THEN bodyOverflow ELSE preEnable
          /\ lastCall' = [op |-> "update", active |-> isActive]

\* processPage with the test of isProcessing inverted
ProcessPageInvertedGate(enabled, observing) ==
  IF ~enabled \/ ~isProcessing
  THEN UNCHANGED passVars
  ELSE /\ TryBlock(observing)
       /\ isProcessing' = FALSE

\* processPage clearing isProcessing at the end of the try block instead of
\* in a finally block
ProcessPageClearInTry(enabled, observing) ==
  IF ~enabled \/ isProcessing
  THEN UNCHANGED passVars
  ELSE /\ TryBlock(observing)
       /\ isProcessing' = (lastPass'.threw # "none")

\* processPage without its finally block
ProcessPageNoFinally(enabled, observing) ==
  IF ~enabled \/ isProcessing
  THEN UNCHANGED passVars
  ELSE /\ TryBlock(observing)
       /\ isProcessing' = TRUE

\* a call of processPage() made while this.extensionEnabled = enabled and
\* (observing) the mutation observer has been set up
ProcessPage(enabled, observing) ==
  IF ~enabled \/ isProcessing
  THEN UNCHANGED passVars
  ELSE /\ TryBlock(observing)
       /\ isProcessing' = FALSE      \* set on entry, cleared by finally

NoPass == [ran |-> {}, threw |-> "none", due |-> {}, kept |-> {}, shorts |-> FALSE]
NoCall == [op |-> "none", active |-> FALSE]
NoToggle ==
  [n |-> 0, elem |-> 0, overlay |-> 0,
   before |-> [display |-> "", overlayShown |-> FALSE, hidden |-> FALSE, visible |-> FALSE]]

\* no closeAndSaveAllTabs() call in progress; none has returned yet
NoCloseAndSave ==
  [pc |-> "idle", tabs |-> << >>, tabsMetadata |-> << >>, existingTabs |-> << >>]
NoResult ==
  [returned |-> FALSE, success |-> FALSE, count |-> 0, closed |-> << >>, saved |-> << >>]

\* no deleteTab() call in progress; none has returned yet
NoDeleteTab == [pc |-> "idle", tabId |-> 0, savedTabs |-> << >>]
NoDeleted == [returned |-> FALSE, tabId |-> 0, success |-> FALSE, deleted |-> FALSE]

InitFrom(overflows, throwing, persisted) ==
  /\ windowUrl \in Urls
  /\ hasSupport \in BOOLEAN
  /\ inDoc = [e \in Elems |-> TRUE]
  /\ insertThrows \in throwing
  /\ display = [e \in Elems |-> ""]
  /\ overlays = [e \in Elems |-> << >>]
  /\ bodyOverflow \in overflows
  /\ listeners = << >>
  /\ buttonDisplay = [b \in Buttons |-> ""]
  /\ timers = {}
  /\ records = {}
  /\ inflight = 0
  /\ phase = "loading"
  /\ hiddenShorts = {}
  /\ sessionVisible = {}
  /\ removedButtons = {}
  /\ isActive = FALSE
  /\ originalOverflow = ""
  /\ container = FALSE
  /\ observer = FALSE
  /\ navListener = FALSE
  /\ extensionEnabled = TRUE
  /\ currentUrl = windowUrl
  /\ isProcessing = FALSE
  /\ timeoutId = 0
  /\ lastPass = NoPass
  /\ revealedAtNav = {}
  /\ passSinceNav = FALSE
  /\ batchesSinceRun = 0
  /\ preEnable = ""
  /\ lastCall = NoCall
  /\ passes = 0
  /\ pairPasses = 0
  /\ lastNav = "none"
  /\ stateFailed = FALSE
  /\ buttonWrites = [b \in Buttons |-> 0]
  /\ lastToggle = NoToggle
  /\ sinceBatch = 0
  /\ hostEvents = 0
  /\ storedTabs \in persisted
  /\ openTabs = << >>
  /\ clock = 0
  /\ call = NoCloseAndSave
  /\ lastResult = NoResult
  /\ nextId = 1
  /\ del = NoDeleteTab
  /\ lastDelete = NoDeleted
  /\ lastSaved = {}

\* every insertion of an overlay succeeds
InitWith(overflows) == InitFrom(overflows, {{}}, {<< >>})

\* the page leaves the inline overflow style of the body unset
Init == InitWith({""})

\* the tasks of the page run only between microtask checkpoints
Idle == records = {}

\* an event of the host page or of the user, or a failed request
HostEvent == hostEvents < MaxHostEvents /\ hostEvents' = hostEvents + 1

StateResponses ==
  {[success |-> TRUE, enabled |-> TRUE], [success |-> TRUE, enabled |-> FALSE],
   [success |-> FALSE, enabled |-> FALSE]}

\* the response read without the default for a failed request
enabledFromStrict(stateResponse) == stateResponse.success /\ stateResponse.enabled

\* stateResponse.success ? stateResponse.enabled : true
enabledFrom(stateResponse) ==
  IF stateResponse.success THEN stateResponse.enabled ELSE TRUE

\* initialize without the return for a disabled extension
InitializeNoReturn(stateResponse) ==
  /\ UNCHANGED storeVars
  /\ UNCHANGED sinceBatch
  /\ UNCHANGED insertThrows
  /\ UNCHANGED lastToggle
  /\ IF stateResponse.success THEN UNCHANGED hostEvents ELSE HostEvent
  /\ Idle /\ phase = "loading"
  /\ phase' = "running"
  /\ stateFailed' = ~stateResponse.success
  /\ extensionEnabled' = enabledFrom(stateResponse)
  /\ observer' = TRUE
  /\ navListener' = TRUE
  /\ ProcessPage(enabledFrom(stateResponse), TRUE)
  /\ UNCHANGED <<windowUrl, hasSupport, inDoc, timers, container, currentUrl,
                 timeoutId, revealedAtNav, batchesSinceRun, pairPasses, lastNav>>

\* initialize() resumes with the response of GET_EXTENSION_STATE; a rejected
\* request reaches it as the failure response sendMessage() makes of it
Initialize(stateResponse) ==
  /\ UNCHANGED storeVars
  /\ UNCHANGED sinceBatch
  /\ UNCHANGED insertThrows
  /\ UNCHANGED lastToggle
  /\ IF stateResponse.success THEN UNCHANGED hostEvents ELSE HostEvent
  /\ Idle /\ phase = "loading"
  /\ phase' = "running"
  /\ stateFailed' = ~stateResponse.success
  /\ extensionEnabled' = enabledFrom(stateResponse)
  /\ IF ~extensionEnabled'
     THEN UNCHANGED <<observer, navListener, passVars>>
     ELSE /\ observer' = TRUE
          /\ navListener' = TRUE
          /\ ProcessPage(TRUE, TRUE)
  /\ UNCHANGED <<windowUrl, hasSupport, inDoc, timers, container, currentUrl,
                 timeoutId, revealedAtNav, batchesSinceRun, pairPasses, lastNav>>

\* the MutationObserver callback receives the queued records
ObserverCallback ==
  /\ UNCHANGED storeVars
  /\ UNCHANGED insertThrows
  /\ UNCHANGED lastToggle
  /\ UNCHANGED hostEvents
  /\ records # {}
  /\ records' = {}
  /\ IF extensionEnabled /\ {m \in records : IsRelevant(m)} # {}
     THEN LET d == debounce([timers |-> timers, timeoutId |-> timeoutId])
          IN /\ timers' = d.timers
             /\ timeoutId' = d.timeoutId
             /\ batchesSinceRun' = batchesSinceRun + 1
             /\ sinceBatch' = 0
     ELSE UNCHANGED <<timers, timeoutId, batchesSinceRun, sinceBatch>>
  /\ UNCHANGED <<windowUrl, hasSupport, inDoc, display, overlays, bodyOverflow,
                 listeners, buttonDisplay, inflight, phase, hiddenShorts,
                 sessionVisible, removedButtons, isActive, originalOverflow,
                 container, observer, navListener, extensionEnabled, currentUrl,
                 isProcessing, lastPass, revealedAtNav, passSinceNav,
                 preEnable, lastCall, passes, pairPasses, lastNav, stateFailed,
                 buttonWrites>>

\* pairPasses after a timer expired and called processPage(); other: a timer
\* of the other trigger is pending
PairPasses(other) ==
  IF pairPasses = 1 THEN (IF passes' > passes THEN 2 ELSE 1)   \* the later one
  ELSE IF other THEN (IF passes' > passes THEN 1 ELSE 0)       \* the earlier one
  ELSE 0

\* the debounce timeout expires: () => this.processPage()
DebounceFire ==
  /\ UNCHANGED storeVars
  /\ UNCHANGED sinceBatch
  /\ UNCHANGED insertThrows
  /\ UNCHANGED lastToggle
  /\ UNCHANGED hostEvents
  /\ Idle
  /\ \E t \in Pending("debouncedProcess") :
       /\ t.remaining = 0
       /\ timers' = timers \ {t}
  /\ batchesSinceRun' = 0
  /\ ProcessPage(extensionEnabled, observer)
  /\ pairPasses' = PairPasses(Pending("processPage") # {})
  /\ UNCHANGED <<windowUrl, hasSupport, inDoc, phase, container, observer,
                 navListener, extensionEnabled, currentUrl, timeoutId,
                 revealedAtNav, lastNav, stateFailed>>

\* the timeout set by handleNavigation() expires: () => this.processPage()
ProcessTimerFire ==
  /\ UNCHANGED storeVars
  /\ UNCHANGED sinceBatch
  /\ UNCHANGED insertThrows
  /\ UNCHANGED lastToggle
  /\ UNCHANGED hostEvents
  /\ Idle
  /\ \E t \in Pending("processPage") :
       /\ t.remaining = 0
       /\ timers' = timers \ {t}
  /\ ProcessPage(extensionEnabled, observer)
  /\ pairPasses' = PairPasses(Pending("debouncedProcess") # {})
  /\ UNCHANGED <<windowUrl, hasSupport, inDoc, phase, container, observer,
                 navListener, extensionEnabled, currentUrl, timeoutId,
                 revealedAtNav, batchesSinceRun, lastNav, stateFailed>>

\* savedTabsUI.remove(): the record its DOM write queues, if any
removeWritten == IF container THEN {Record(HostNode, {}, {createContainer}, "remove")} ELSE {}

\* handleNavigation without the comparison of the URLs
UrlChangedAlways == TRUE

\* newUrl !== this.currentUrl
UrlChanged == windowUrl # currentUrl

\* the timeout of a navigation signal expires: () => this.handleNavigation()
HandleNavigation ==
  /\ UNCHANGED storeVars
  /\ UNCHANGED sinceBatch
  /\ UNCHANGED insertThrows
  /\ UNCHANGED hostEvents
  /\ Idle
  /\ \E t \in Pending("handleNavigation") :
       /\ t.remaining = 0
       /\ IF UrlChanged
          THEN /\ currentUrl' = windowUrl
               /\ sessionVisible' = resetSession(ShortsState).sessionVisible
               /\ hiddenShorts' = resetSession(ShortsState).hiddenShorts
               /\ removedButtons' = {}
               /\ container' = FALSE
               /\ records' = records \cup Observed(observer, removeWritten)
               /\ timers' = setTimeout(timers \ {t}, timeoutId, "processPage", NAV_DELAY)
               /\ revealedAtNav' = sessionVisible
               /\ passSinceNav' = FALSE
               /\ buttonWrites' = [b \in Buttons |-> 0]
               /\ lastNav' = "changed"
               /\ lastToggle' = NoToggle
          ELSE /\ timers' = timers \ {t}
               /\ lastNav' = "unchanged"
               /\ UNCHANGED <<currentUrl, sessionVisible, hiddenShorts,
                              removedButtons, container, records,
                              revealedAtNav, passSinceNav, buttonWrites,
                              lastToggle>>
  /\ UNCHANGED <<windowUrl, hasSupport, inDoc, display, overlays, bodyOverflow,
                 listeners, buttonDisplay, inflight, phase, isActive,
                 originalOverflow, observer, navListener, extensionEnabled,
                 isProcessing, timeoutId, lastPass, batchesSinceRun,
                 preEnable, lastCall, passes, pairPasses, stateFailed>>

\* a click event reaches the toggle button of an overlay inserted for e (the
\* listener runs for every click event dispatched on the button, whatever the
\* inline display of the overlay)
ToggleClick(e, overlay) ==
  /\ UNCHANGED storeVars
  /\ UNCHANGED sinceBatch
  /\ UNCHANGED insertThrows
  /\ HostEvent
  /\ Idle
  /\ overlay \in 1..Len(overlays[e])
  /\ LET sb == toggleShortVisibility(ShortsState, e, overlay)
     IN /\ hiddenShorts' = sb.hiddenShorts
        /\ sessionVisible' = sb.sessionVisible
        /\ display' = sb.display
        /\ overlays' = sb.overlays
  /\ revealedAtNav' = revealedAtNav \ {e}
  /\ lastToggle' =
       IF lastToggle.n = 1 /\ lastToggle.elem = e /\ lastToggle.overlay = overlay
       THEN [lastToggle EXCEPT !.n = 2]
       ELSE IF e \notin sessionVisible
            THEN [n |-> 1, elem |-> e, overlay |-> overlay,
                  before |-> [display |-> display[e],
                              overlayShown |-> overlayShown(overlays[e][overlay]),
                              hidden |-> e \in hiddenShorts,
                              visible |-> e \in sessionVisible]]
            ELSE NoToggle
  /\ UNCHANGED <<windowUrl, hasSupport, inDoc, bodyOverflow, listeners,
                 buttonDisplay, timers, records, inflight, phase,
                 removedButtons, isActive, originalOverflow, container,
                 observer, navListener, extensionEnabled, currentUrl,
                 isProcessing, timeoutId, lastPass, passSinceNav,
                 batchesSinceRun, preEnable, lastCall, passes, pairPasses,
                 lastNav, stateFailed, buttonWrites>>

\* renderTabs(tabs): the records its DOM writes queue
renderWritten(inserted) ==
  (IF inserted THEN {Record(HostNode, {createContainer}, {}, "renderTabs")} ELSE {})
    \cup {Record(ContainerChildNode, {ContainerChildNode}, {ContainerChildNode}, "renderTabs")}

\* refresh() resumes with the response of GET_SAVED_TABS; insertionPoint:
\* findInsertionPoint() finds an element of the host page
RefreshResponse(success, insertionPoint) ==
  /\ UNCHANGED storeVars
  /\ UNCHANGED sinceBatch
  /\ UNCHANGED insertThrows
  /\ UNCHANGED lastToggle
  /\ UNCHANGED hostEvents
  /\ Idle /\ inflight > 0
  /\ inflight' = inflight - 1
  /\ IF success /\ (container \/ insertionPoint)
     THEN /\ container' = TRUE
          /\ records' = records \cup Observed(observer, renderWritten(~container))
     ELSE UNCHANGED <<container, records>>
  /\ UNCHANGED <<windowUrl, hasSupport, inDoc, display, overlays, bodyOverflow,
                 listeners, buttonDisplay, timers, phase, hiddenShorts,
                 sessionVisible, removedButtons, isActive, originalOverflow,
                 observer, navListener, extensionEnabled, currentUrl,
                 isProcessing, timeoutId, histVars>>

(* ------------------------------ the host page -------------------------- *)
\* the ways the location of the page changes without a reload
NavSignals == {"pushState", "replaceState", "popstate"}

\* setupNavigationListener without the popstate listener
heardSignalsWrappedOnly(installed) ==
  IF installed THEN {"pushState", "replaceState"} ELSE {}

\* the signals that queue handleNavigation(): the two wrapped methods of
\* history and the popstate listener, once setupNavigationListener() has run
heardSignals(installed) == IF installed THEN NavSignals ELSE {}

\* history.pushState / replaceState / popstate moves the location to url
HostNavigate(signal, url) ==
  /\ UNCHANGED storeVars
  /\ UNCHANGED sinceBatch
  /\ UNCHANGED insertThrows
  /\ UNCHANGED lastToggle
  /\ HostEvent
  /\ Idle
  /\ windowUrl' = url
  /\ timers' = IF signal \in heardSignals(navListener)
               THEN setTimeout(timers, timeoutId, "handleNavigation", NAV_CALLBACK_DELAY)
               ELSE timers
  /\ UNCHANGED <<hasSupport, inDoc, display, overlays, bodyOverflow, listeners,
                 buttonDisplay, records, inflight, phase, objVars, histVars>>

\* the host page attaches or detaches a shorts container
HostMoveElement(e) ==
  /\ UNCHANGED storeVars
  /\ UNCHANGED sinceBatch
  /\ UNCHANGED insertThrows
  /\ UNCHANGED lastToggle
  /\ HostEvent
  /\ Idle
  /\ inDoc' = [inDoc EXCEPT ![e] = ~@]
  /\ records' = records \cup Observed(observer,
                                     {IF inDoc[e]
                                      THEN Record(HostNode, {}, {HostNode}, "host")
                                      ELSE Record(HostNode, {HostNode}, {}, "host")})
  /\ revealedAtNav' = revealedAtNav \ {e}
  /\ UNCHANGED <<windowUrl, hasSupport, display, overlays, bodyOverflow,
                 listeners, buttonDisplay, timers, inflight, phase, objVars,
                 lastPass, passSinceNav, batchesSinceRun, preEnable, lastCall,
                 passes, pairPasses, lastNav, stateFailed, buttonWrites>>

\* the host page changes some other part of the document
HostMutate ==
  /\ UNCHANGED storeVars
  /\ UNCHANGED sinceBatch
  /\ UNCHANGED insertThrows
  /\ UNCHANGED lastToggle
  /\ HostEvent
  /\ Idle /\ observer
  /\ records' = records \cup {Record(HostNode, {HostNode}, {}, "host")}
  /\ UNCHANGED <<windowUrl, hasSupport, inDoc, display, overlays, bodyOverflow,
                 listeners, buttonDisplay, timers, inflight, phase, objVars,
                 histVars>>

\* time passes until the next timeout expires
Advance ==
  /\ UNCHANGED storeVars
  /\ UNCHANGED insertThrows
  /\ UNCHANGED lastToggle
  /\ UNCHANGED hostEvents
  /\ Idle /\ timers # {}
  /\ \A t \in timers : t.remaining > 0
  /\ LET d == CHOOSE d \in {t.remaining : t \in timers} :
                \A t \in timers : d <= t.remaining
     IN /\ timers' = {Timer(t.id, t.cb, t.remaining - d) : t \in timers}
        /\ sinceBatch' = IF Pending("debouncedProcess") # {} THEN sinceBatch + d
                         ELSE sinceBatch
  /\ UNCHANGED <<windowUrl, hasSupport, inDoc, display, overlays, bodyOverflow,
                 listeners, buttonDisplay, records, inflight, phase, objVars,
                 lastPass, revealedAtNav, passSinceNav, batchesSinceRun,
                 preEnable, lastCall, passes, pairPasses, lastNav, stateFailed,
                 buttonWrites>>

(* ========================== background script ========================= *)
(* StorageManager and TabManager of src/chrome/background.js.  Every await  *)
(* of a browser API ends one step of the call; a rejected API call is one   *)
(* of the outcomes of the step.                                             *)
MAX_SAVED_TABS == 100

\* what extractTabMetadata() stores of a tab that the code modelled reads;
\* id stands for the string made of Date.now() and Math.random()
extractTabMetadata(id, url, now) == [id |-> id, url |-> url, savedAt |-> now]

IdsOf(tabs) == {tabs[i].id : i \in 1..Len(tabs)}

UrlsOf(tabs) == {tabs[i].url : i \in 1..Len(tabs)}

\* the merge loop of saveTabs(): existingUrls is computed once, before it
mergeTabs(existingTabs, newTabs) ==
  LET existingUrls == UrlsOf(existingTabs)
  IN existingTabs \o SelectSeq(newTabs, LAMBDA newTab : newTab.url \notin existingUrls)

\* allTabs.sort((a, b) => new Date(b.savedAt) - new Date(a.savedAt)): the sort
\* is stable, so tabs of one savedAt keep their order
RECURSIVE sortBySavedAt(_, _)
sortBySavedAt(allTabs, latest) ==
  IF latest < 0 THEN << >>
  ELSE SelectSeq(allTabs, LAMBDA tab : tab.savedAt = latest)
         \o sortBySavedAt(allTabs, latest - 1)

\* the limit without its sort
limitTabsUnsorted(allTabs) ==
  SubSeq(allTabs, 1, IF Len(allTabs) < MAX_SAVED_TABS THEN Len(allTabs) ELSE MAX_SAVED_TABS)

\* the limit without its slice
limitTabsUnsliced(allTabs) == sortBySavedAt(allTabs, MaxClock)

\* .sort(...).slice(0, CONFIG.MAX_SAVED_TABS)
limitTabs(allTabs) ==
  LET sorted == sortBySavedAt(allTabs, MaxClock)
  IN SubSeq(sorted, 1, IF Len(sorted) < MAX_SAVED_TABS THEN Len(sorted) ELSE MAX_SAVED_TABS)

\* the URLs of the tabs the user opens a few at a time: two, so that one
\* URL can be open in two tabs and stored beside another
TabUrls == {1, 2}

\* the batches of tabs the user opens: a few tabs of few URLs, or very many
\* tabs of distinct URLs
SmallBatches == UNION {[1..n -> TabUrls] : n \in 1..MaxOpen}

TabBatches ==
  SmallBatches
    \cup {[i \in 1..n |-> i] : n \in {MAX_SAVED_TABS, MAX_SAVED_TABS + 1}}

\* the user opens YouTube tabs: a few more, or very many at once
HostOpenTabs(batch) ==
  /\ HostEvent
  /\ IF Len(batch) <= MaxOpen THEN Len(openTabs) + Len(batch) <= MaxOpen
     ELSE openTabs = << >>
  /\ openTabs' = openTabs \o batch
  /\ UNCHANGED <<contentVars, storedTabs, clock, call, lastResult, nextId,
                 delVars, lastSaved>>

\* the clock of the background script moves on
Tick ==
  /\ clock < MaxClock
  /\ clock' = clock + 1
  /\ UNCHANGED <<contentVars, hostEvents, storedTabs, openTabs, call, lastResult,
                 nextId, delVars, lastSaved>>

\* closeAndSaveAllTabs() up to the first await of saveTabs(): the tabs are
\* queried and their metadata extracted
CloseAndSaveStart ==
  /\ call.pc = "idle"
  /\ IF openTabs = << >>
     THEN /\ lastResult' = [returned |-> TRUE, success |-> TRUE, count |-> 0,
                            closed |-> << >>, saved |-> << >>]
          /\ UNCHANGED <<call, nextId>>
     ELSE /\ call' = [pc |-> "get", tabs |-> openTabs,
                      tabsMetadata |-> [i \in 1..Len(openTabs) |->
                                          extractTabMetadata(nextId + i - 1,
                                                             openTabs[i], clock)],
                      existingTabs |-> << >>]
          /\ nextId' = nextId + Len(openTabs)
          /\ UNCHANGED lastResult
  /\ UNCHANGED <<contentVars, hostEvents, storedTabs, openTabs, clock, delVars,
                 lastSaved>>

\* getSavedTabs() inside saveTabs(): a rejected read is answered by []
StorageGet(ok) ==
  /\ call.pc = "get"
  /\ IF ok THEN UNCHANGED hostEvents ELSE HostEvent
  /\ call' = [call EXCEPT !.pc = "set",
                          !.existingTabs = IF ok THEN storedTabs ELSE << >>]
  /\ UNCHANGED <<contentVars, storedTabs, openTabs, clock, lastResult, nextId,
                 delVars, lastSaved>>

\* closeAndSaveAllTabs going on to close the tabs whatever saveTabs() reports
StorageSetThenClose(ok) ==
  /\ call.pc = "set"
  /\ IF ok
     THEN /\ UNCHANGED hostEvents
          /\ storedTabs' = limitTabs(mergeTabs(call.existingTabs, call.tabsMetadata))
     ELSE /\ HostEvent
          /\ UNCHANGED storedTabs
  /\ call' = [call EXCEPT !.pc = "remove"]
  /\ UNCHANGED <<contentVars, openTabs, clock, lastResult, nextId, delVars,
                 lastSaved>>

\* saveTabs() from the merge to chrome.storage.local.set; when the write is
\* rejected saveTabs() reports the failure and closeAndSaveAllTabs() returns
StorageSet(ok) ==
  /\ call.pc = "set"
  /\ IF ok
     THEN /\ UNCHANGED hostEvents
          /\ storedTabs' = limitTabs(mergeTabs(call.existingTabs, call.tabsMetadata))
          /\ call' = [call EXCEPT !.pc = "remove"]
          /\ lastSaved' = IdsOf(call.tabsMetadata) \cap IdsOf(storedTabs')
          /\ UNCHANGED lastResult
     ELSE /\ HostEvent
          /\ call' = NoCloseAndSave
          /\ lastResult' = [returned |-> TRUE, success |-> FALSE, count |-> 0,
                            closed |-> << >>, saved |-> << >>]
          /\ UNCHANGED <<storedTabs, lastSaved>>
  /\ UNCHANGED <<contentVars, openTabs, clock, nextId, delVars>>

\* chrome.tabs.remove(tabIds) and the return of closeAndSaveAllTabs(): the
\* tabs queried are the oldest Len(call.tabs) of the open ones
TabsRemove ==
  /\ call.pc = "remove"
  /\ openTabs' = SubSeq(openTabs, Len(call.tabs) + 1, Len(openTabs))
  /\ lastResult' = [returned |-> TRUE, success |-> TRUE, count |-> Len(call.tabs),
                    closed |-> call.tabs, saved |-> call.tabsMetadata]
  /\ call' = NoCloseAndSave
  /\ UNCHANGED <<contentVars, hostEvents, storedTabs, clock, nextId, delVars,
                 lastSaved>>

\* the entries of the saved-tabs list whose delete button the user reaches
MaxDeleteIndex == 2

\* an id of a tab that is no longer stored, still shown by a page that has
\* not refreshed its list
StaleId == 0

\* the tabIds a DELETE_TAB message carries
DeleteChoices ==
  {storedTabs[i].id : i \in {j \in DOMAIN storedTabs : j <= MaxDeleteIndex}}
    \cup {StaleId}

\* handleMessage() receives DELETE_TAB and deleteTab(tabId) runs up to the
\* await of getSavedTabs()
DeleteTabStart(tabId) ==
  /\ HostEvent
  /\ del.pc = "idle"
  /\ del' = [pc |-> "get", tabId |-> tabId, savedTabs |-> << >>]
  /\ UNCHANGED <<contentVars, storedTabs, openTabs, clock, call, lastResult,
                 nextId, lastDelete, lastSaved>>

\* getSavedTabs() inside deleteTab(): a rejected read is answered by []
DeleteTabGet(ok) ==
  /\ del.pc = "get"
  /\ IF ok THEN UNCHANGED hostEvents ELSE HostEvent
  /\ del' = [del EXCEPT !.pc = "set",
                        !.savedTabs = IF ok THEN storedTabs ELSE << >>]
  /\ UNCHANGED <<contentVars, storedTabs, openTabs, clock, call, lastResult,
                 nextId, lastDelete, lastSaved>>

\* savedTabs.filter(tab => tab.id !== tabId)
filterTabs(savedTabs, tabId) == SelectSeq(savedTabs, LAMBDA tab : tab.id # tabId)

\* deleteTab() from the filter to chrome.storage.local.set and its return
DeleteTabSet(ok) ==
  /\ del.pc = "set"
  /\ IF ok
     THEN /\ UNCHANGED hostEvents
          /\ storedTabs' = filterTabs(del.savedTabs, del.tabId)
          /\ lastDelete' = [returned |-> TRUE, tabId |-> del.tabId, success |-> TRUE,
                            deleted |-> Len(del.savedTabs)
                                          - Len(filterTabs(del.savedTabs, del.tabId)) > 0]
     ELSE /\ HostEvent
          /\ lastDelete' = [returned |-> TRUE, tabId |-> del.tabId, success |-> FALSE,
                            deleted |-> FALSE]
          /\ UNCHANGED storedTabs
  /\ del' = NoDeleteTab
  /\ UNCHANGED <<contentVars, openTabs, clock, call, lastResult, nextId,
                 lastSaved>>

NextStore ==
  \/ \E batch \in TabBatches : HostOpenTabs(batch)
  \/ Tick
  \/ CloseAndSaveStart
  \/ \E ok \in BOOLEAN : StorageGet(ok)
  \/ \E ok \in BOOLEAN : StorageSet(ok)
  \/ TabsRemove

\* the background script while DELETE_TAB messages arrive as well, the user
\* opening a few tabs at a time
NextDelete ==
  \/ \E batch \in SmallBatches : HostOpenTabs(batch)
  \/ Tick
  \/ CloseAndSaveStart
  \/ \E ok \in BOOLEAN : StorageGet(ok)
  \/ \E ok \in BOOLEAN : StorageSet(ok)
  \/ TabsRemove
  \/ \E tabId \in DeleteChoices : DeleteTabStart(tabId)
  \/ \E ok \in BOOLEAN : DeleteTabGet(ok)
  \/ \E ok \in BOOLEAN : DeleteTabSet(ok)

(* ------------- ScrollPreventer driven through its methods -------------- *)
scrollVars == <<isActive, originalOverflow, bodyOverflow, listeners>>

otherVars == <<windowUrl, hasSupport, inDoc, insertThrows, display, overlays, buttonDisplay,
               timers, records, inflight, phase, hiddenShorts, sessionVisible,
               removedButtons, container, observer, navListener,
               extensionEnabled, currentUrl, isProcessing, timeoutId, lastPass,
               revealedAtNav, passSinceNav, batchesSinceRun, passes, pairPasses,
               lastNav, stateFailed, buttonWrites>>

SetScroll(s) ==
  /\ isActive' = s.isActive
  /\ originalOverflow' = s.originalOverflow
  /\ bodyOverflow' = s.overflow
  /\ listeners' = s.listeners

CallEnable ==
  /\ UNCHANGED storeVars
  /\ UNCHANGED sinceBatch
  /\ UNCHANGED insertThrows
  /\ UNCHANGED lastToggle
  /\ SetScroll(enable(ScrollState))
  /\ preEnable' = IF isActive THEN preEnable ELSE bodyOverflow
  /\ lastCall' = [op |-> "enable", active |-> isActive]
  /\ UNCHANGED <<otherVars, hostEvents>>

CallDisable ==
  /\ UNCHANGED storeVars
  /\ UNCHANGED sinceBatch
  /\ UNCHANGED insertThrows
  /\ UNCHANGED lastToggle
  /\ SetScroll(disable(ScrollState))
  /\ lastCall' = [op |-> "disable", active |-> isActive]
  /\ UNCHANGED <<otherVars, preEnable, hostEvents>>

CallUpdate ==
  /\ UNCHANGED storeVars
  /\ UNCHANGED sinceBatch
  /\ UNCHANGED insertThrows
  /\ UNCHANGED lastToggle
  /\ SetScroll(update(ScrollState, windowUrl))
  /\ preEnable' = IF ~isActive /\ isShortsPage(windowUrl) THEN bodyOverflow ELSE preEnable
  /\ lastCall' = [op |-> "update", active |-> isActive]
  /\ UNCHANGED <<otherVars, hostEvents>>

\* the host page writes document.body.style.overflow
HostSetOverflow(value) ==
  /\ UNCHANGED storeVars
  /\ UNCHANGED sinceBatch
  /\ UNCHANGED insertThrows
  /\ UNCHANGED lastToggle
  /\ HostEvent
  /\ bodyOverflow' = value
  /\ lastCall' = [op |-> "host", active |-> isActive]
  /\ UNCHANGED <<otherVars, isActive, originalOverflow, listeners, preEnable>>

NextScroll ==
  \/ CallEnable
  \/ CallDisable
  \/ CallUpdate
  \/ \E value \in OverflowValues : HostSetOverflow(value)
  \/ \E signal \in NavSignals, url \in Urls : HostNavigate(signal, url)

SpecScroll == InitWith(OverflowValues) /\ [][NextScroll]_vars

(* --------------- ShortsBlocker driven through its methods -------------- *)
SetShorts(sb) ==
  /\ hiddenShorts' = sb.hiddenShorts
  /\ sessionVisible' = sb.sessionVisible
  /\ display' = sb.display
  /\ overlays' = sb.overlays

shortsRest == <<windowUrl, hasSupport, inDoc, bodyOverflow, listeners,
                buttonDisplay, timers, records, inflight, phase,
                removedButtons, isActive, originalOverflow, container,
                observer, navListener, extensionEnabled, currentUrl,
                isProcessing, timeoutId, lastPass, revealedAtNav, passSinceNav,
                batchesSinceRun, preEnable, passes, pairPasses, lastNav,
                stateFailed, buttonWrites, lastToggle, hostEvents>>

\* hideShort(e) for any element, attached or not; no observer is connected
CallHideShort(e) ==
  /\ UNCHANGED storeVars
  /\ UNCHANGED sinceBatch
  /\ UNCHANGED insertThrows
  /\ SetShorts(hideShort(ShortsState, e))
  /\ lastCall' = [op |-> "hideShort", active |-> FALSE]
  /\ UNCHANGED shortsRest

\* processShorts(); lastCall.active: an exception left the method
CallProcessShorts ==
  /\ UNCHANGED storeVars
  /\ UNCHANGED sinceBatch
  /\ UNCHANGED insertThrows
  /\ \E r \in {processShorts(ShortsState, windowUrl)} :
       /\ SetShorts(r.sb)
       /\ lastCall' = [op |-> "processShorts", active |-> r.threw]
  /\ UNCHANGED shortsRest

NextShorts ==
  \/ \E e \in Elems : CallHideShort(e)
  \/ CallProcessShorts
  \/ \E e \in Elems, overlay \in 1..2 : ToggleClick(e, overlay)
  \/ \E e \in Elems : HostMoveElement(e)
  \/ \E signal \in NavSignals, url \in Urls : HostNavigate(signal, url)

\* the insertion of an overlay may throw for any of the elements
SpecShorts == InitFrom({""}, SUBSET Elems, {<< >>}) /\ [][NextShorts]_vars

Next ==
  \/ \E stateResponse \in StateResponses : Initialize(stateResponse)
  \/ ObserverCallback
  \/ DebounceFire
  \/ ProcessTimerFire
  \/ HandleNavigation
  \/ \E e \in Elems, overlay \in 1..2 : ToggleClick(e, overlay)
  \/ \E success \in BOOLEAN, insertionPoint \in BOOLEAN : RefreshResponse(success, insertionPoint)
  \/ \E signal \in NavSignals, url \in Urls : HostNavigate(signal, url)
  \/ \E e \in Elems : HostMoveElement(e)
  \/ HostMutate
  \/ Advance

Spec == Init /\ [][Next]_vars

\* the steps the browser owes the content script: a queued observer
\* callback is delivered, an expired timeout runs its callback, time passes
\* while timeouts are pending, and every sendMessage() promise settles
ProgramStep ==
  \/ \E stateResponse \in StateResponses : Initialize(stateResponse)
  \/ ObserverCallback
  \/ DebounceFire
  \/ ProcessTimerFire
  \/ HandleNavigation
  \/ \E success \in BOOLEAN, insertionPoint \in BOOLEAN : RefreshResponse(success, insertionPoint)
  \/ Advance

SpecFair == Spec /\ WF_vars(ProgramStep)

\* the background script alone, beside a content script that never starts
\* a tab that an earlier run of the background script stored
PersistedTab == [id |-> -1, url |-> 1, savedAt |-> 0]

InitStore == Init /\ windowUrl = HomeUrl /\ hasSupport = TRUE

\* chrome.storage.local outlives the background script: the list starts
\* empty or as an earlier run left it
InitDelete ==
  /\ InitFrom({""}, {{}}, {<< >>, <<PersistedTab>>})
  /\ windowUrl = HomeUrl /\ hasSupport = TRUE

SpecStore == InitStore /\ [][NextStore]_vars

SpecDelete == InitDelete /\ [][NextDelete]_vars

(* ================================ claims =============================== *)
\* a step in which processPage() is called
PassStep ==
  \/ DebounceFire
  \/ ProcessTimerFire
  \/ \E stateResponse \in StateResponses : Initialize(stateResponse)

Suppressed(e) == e \in hiddenShorts /\ e \notin sessionVisible

\* C1: no element is a member of both hiddenShorts and sessionVisible.
C1_TrackingSetsDisjoint == hiddenShorts \cap sessionVisible = {}

\* C2: an element that was revealed when handleNavigation() saw a changed URL
\* is in neither tracking set afterwards (until the next pass suppresses it).
C2_ResetReturnsToUnseen ==
  ~passSinceNav =>
    \A e \in revealedAtNav : e \notin hiddenShorts /\ e \notin sessionVisible

\* C3: a short that was revealed, and is still in the document, is hidden
\* again (display none, overlay shown) once the pass that follows a navigation
\* to a non-shorts URL has run.
C3_HiddenAgainAfterNavigation ==
  passSinceNav =>
    \A e \in revealedAtNav :
      inDoc[e] => /\ display[e] = "none"
                  /\ \E i \in 1..Len(overlays[e]) : overlays[e][i] # "none"

\* C4: a pass that reaches hideShort() for an element that is already
\* SUPPRESSED inserts no second overlay for it, does not rewrite its display
\* and leaves its membership of both tracking sets as it was; when every
\* attached element is already suppressed the pass changes neither set and
\* writes nothing to the document.
C4_HideShortIdempotent ==
  [][PassStep =>
       /\ \A e \in Elems :
            Suppressed(e) =>
              /\ overlays'[e] = overlays[e]
              /\ display'[e] = display[e]
              /\ e \in hiddenShorts' /\ e \notin sessionVisible'
       /\ (\A e \in Elems : inDoc[e] => Suppressed(e)) =>
              /\ hiddenShorts' = hiddenShorts
              /\ sessionVisible' = sessionVisible
              /\ records' = records]_vars

\* a pass has called hideShort() for an attached, already suppressed element
C4_Witness ==
  \E e \in lastPass.kept :
    Suppressed(e) /\ display[e] = "none" /\ Len(overlays[e]) = 1

\* C5: every mutation record made by a suppression write is rejected by the
\* observer's filter, and a batch made only of such records leaves the
\* debounce timer alone.
C5_SuppressionWritesFiltered ==
  /\ [](\A m \in records : m.by = "hideShort" => ~IsRelevant(m))
  /\ [][(ObserverCallback /\ \A m \in records : m.by = "hideShort")
          => UNCHANGED <<timers, timeoutId, batchesSinceRun>>]_vars

\* the observer is about to receive the record of an overlay insertion
C5_Witness ==
  /\ observer
  /\ \E m \in records : m.by = "hideShort" /\ createOverlay \in m.added

\* C6: at most one debounce timer is pending; one is pending exactly while
\* qualifying batches have arrived since the last debounced run, so a burst of
\* N batches is answered by one call; every qualifying batch leaves the single
\* pending timer armed with the full DEBOUNCE_DELAY.
C6_DebounceCoalesces ==
  /\ [](Cardinality(Pending("debouncedProcess")) = IF batchesSinceRun > 0 THEN 1 ELSE 0)
  /\ [][batchesSinceRun' > batchesSinceRun =>
          \A t \in Pending("debouncedProcess")' :
             t.remaining = DEBOUNCE_DELAY /\ t.id = timeoutId']_vars

\* a second qualifying batch arrived while the timer of the first was pending
C6_Witness ==
  /\ batchesSinceRun >= 2
  /\ \E t \in Pending("debouncedProcess") : t.remaining = DEBOUNCE_DELAY

\* C7: when disable() has deactivated the preventer, the body overflow style
\* is the one seen just before the enable() that activated it.
C7_EnableDisableRestores ==
  (lastCall.op = "disable" /\ lastCall.active) => bodyOverflow = preEnable

\* enable(); disable() has restored a non-default style
C7_Witness ==
  /\ lastCall.op = "disable" /\ lastCall.active
  /\ preEnable = "scroll" /\ bodyOverflow = "scroll"

Interceptors ==
  {Listener("document", "wheel", TRUE), Listener("document", "keydown", TRUE),
   Listener("window", "wheel", FALSE), Listener("window", "keydown", FALSE)}

\* C8: no interceptor is registered twice, and the interceptors are
\* registered exactly when isActive is true.
C8_ListenersOnceIffActive ==
  /\ \A i, j \in 1..Len(listeners) : listeners[i] = listeners[j] => i = j
  /\ {listeners[i] : i \in 1..Len(listeners)} = IF isActive THEN Interceptors ELSE {}

\* update() was called on a shorts page while the preventer was already active
C8_Witness ==
  /\ lastCall = [op |-> "update", active |-> TRUE]
  /\ isShortsPage(windowUrl) /\ isActive /\ Len(listeners) = 4

\* C9: enable() while active and disable() while inactive change nothing; in
\* particular after a second enable() the captured style is still the one
\* seen before the first.
C9_EnableDisableIdempotent ==
  /\ [][((CallEnable /\ isActive) \/ (CallDisable /\ ~isActive))
          => UNCHANGED scrollVars]_vars
  /\ []((lastCall.op = "enable" /\ lastCall.active)
          => (isActive /\ originalOverflow = preEnable))

\* enable() was called while active, after a non-default style was captured
C9_Witness ==
  /\ lastCall = [op |-> "enable", active |-> TRUE]
  /\ originalOverflow = "scroll" /\ bodyOverflow = "hidden"

\* C10: when a stage of processPage() throws, the later stages of that pass
\* still run: every stage that was due on the page has run.
C10_StageFailureIsolated ==
  lastPass.threw # "none" => lastPass.due \subseteq lastPass.ran

\* C11: when one selector of the list throws, the scan of a pass still
\* collects what the other selectors match and no exception leaves it: the
\* pass ends without entering its catch block and every attached element that
\* a parsable selector matches is tracked afterwards.
C11_SelectorFailureSkipped ==
  [][(PassStep /\ extensionEnabled' /\ ~isShortsPage(windowUrl)) =>
       /\ ~findShortsElements.threw
       /\ lastPass'.threw = "none"
       /\ \A e \in Elems :
            (inDoc[e] /\ \E selector \in MatchedBy(e) : ~Unparsable(selector))
               => e \in hiddenShorts' \cup sessionVisible']_vars

\* a timer expires whose callback calls processPage()
TimerPassStep == DebounceFire \/ ProcessTimerFire

\* C12 (as stated): of a navigation-delay timer and a debounce timer that are
\* pending together only one runs a pass; the later one is dropped by the gate.
C12_PairCollapses == pairPasses <= 1

\* C12 (amended): every expiry of the navigation-delay timer or of the
\* debounce timer finds the gate open and runs a pass of its own, so two
\* triggers that are pending together run two passes, one after the other.
C12_EachTriggerRunsItsPass ==
  [][(TimerPassStep /\ extensionEnabled) =>
       /\ ~isProcessing
       /\ passes' = passes + 1
       /\ lastPass'.shorts = isShortsPage(windowUrl)]_vars

\* both triggers of a pair that was pending together have run their pass
C12_Witness == pairPasses = 2 /\ passes >= 3

\* C13: processPage() is never entered while isProcessing is true: the gate
\* is closed only inside a pass, and passes do not interleave with the initial
\* call or with the expiry of either timer.
C13_GateOpenBetweenTasks == ~isProcessing

\* the initial call, a navigation-delay expiry and a debounce expiry have
\* each entered processPage()
C13_Witness ==
  /\ phase = "running" /\ passes >= 3 /\ lastNav = "changed"
  /\ batchesSinceRun = 0 /\ timeoutId # 0

\* C14: handleNavigation() run while the location equals currentUrl leaves
\* currentUrl, both tracking sets, the removed-buttons set and the saved-tabs
\* container as they were and schedules no processPage() run.
C14_SameUrlNavigationNoOp ==
  [][(HandleNavigation /\ windowUrl = currentUrl) =>
       /\ UNCHANGED <<currentUrl, hiddenShorts, sessionVisible, removedButtons,
                      container>>
       /\ Pending("processPage")' = Pending("processPage")]_vars

\* handleNavigation() saw an unchanged URL while both tracking sets held
\* elements
C14_Witness ==
  /\ lastNav = "unchanged" /\ windowUrl = currentUrl
  /\ hiddenShorts # {} /\ sessionVisible # {}
  /\ Pending("processPage") = {}

\* C15: when GET_EXTENSION_STATE is rejected or answered without success,
\* initialize() goes on as if the extension were enabled: the mutation
\* observer and the navigation listener are set up and the initial pass runs.
C15_FailedStateDefaultsToEnabled ==
  stateFailed =>
    /\ extensionEnabled /\ observer /\ navListener
    /\ passes >= 1 /\ lastPass # NoPass

\* the request failed and the initial pass has hidden the shorts of the page
C15_Witness ==
  /\ stateFailed /\ phase = "running" /\ observer /\ navListener
  /\ passes = 1 /\ hiddenShorts = {e \in Elems : inDoc[e]} /\ hiddenShorts # {}

\* C16: a pass that runs while the location is a /shorts/ page leaves both
\* tracking sets, every element's display and every overlay as they were, and
\* makes no suppression write.
C16_NoSuppressionOnShortsPage ==
  [][(PassStep /\ isShortsPage(windowUrl)) =>
       /\ UNCHANGED <<hiddenShorts, sessionVisible, display, overlays>>
       /\ \A m \in records' \ records : m.by # "hideShort"]_vars

\* a pass ran on a /shorts/ page that shows an attached, matching, visible
\* and untracked element
C16_Witness ==
  /\ lastPass # NoPass /\ lastPass.shorts /\ isShortsPage(windowUrl)
  /\ hasSupport
  /\ \E e \in Elems : inDoc[e] /\ e \notin hiddenShorts /\ display[e] = ""

\* C17: a pass on a non-shorts URL changes neither the removed-buttons set
\* nor any button's display; between two resets the display of a button is
\* written at most once, exactly when the button enters the set; and no step
\* of the pipeline makes a hidden button visible again.
C17_ButtonsHiddenOnceNeverRevealed ==
  /\ [](\A b \in Buttons :
          /\ buttonWrites[b] <= 1
          /\ b \in removedButtons <=> buttonWrites[b] = 1)
  /\ [][(PassStep /\ ~isShortsPage(windowUrl))
          => UNCHANGED <<removedButtons, buttonDisplay>>]_vars
  /\ [][\A b \in Buttons :
          buttonDisplay[b] = "none" => buttonDisplay'[b] = "none"]_vars

\* a second pass ran on a shorts page, with no reset since the first one hid
\* the buttons
C17_Witness ==
  /\ lastCall = [op |-> "update", active |-> TRUE] /\ lastNav = "none"
  /\ passes >= 2 /\ lastPass.shorts
  /\ removedButtons = Buttons
  /\ \A b \in Buttons : buttonWrites[b] = 1 /\ buttonDisplay[b] = "none"

\* C18: once a pass has run, the preventer is active exactly when the
\* location was a /shorts/ page at the last pass; when active the body
\* overflow is "hidden" and the four interceptors are attached, when inactive
\* the overflow is the page's own and no interceptor is attached.
C18_ActiveIffShortsAtLastPass ==
  lastPass # NoPass =>
    /\ isActive <=> lastPass.shorts
    /\ bodyOverflow = "hidden" <=> isActive
    /\ {listeners[i] : i \in 1..Len(listeners)} = IF isActive THEN Interceptors ELSE {}
    /\ ~isActive => bodyOverflow = originalOverflow

\* a pass on a non-shorts URL has deactivated the preventer that a pass on a
\* /shorts/ page had activated
C18_Witness ==
  /\ lastCall = [op |-> "update", active |-> TRUE]
  /\ ~lastPass.shorts /\ ~isActive
  /\ bodyOverflow = "" /\ listeners = << >>

\* C19: a toggle on element e changes nothing of any other element (display,
\* overlays, membership of the tracking sets); when e was suppressed it is
\* revealed afterwards: in sessionVisible, display restored, the clicked
\* overlay hidden and its other overlays as they were.
C19_ToggleChangesOnlyItsElement ==
  [][\A e \in Elems, overlay \in 1..2 :
       ToggleClick(e, overlay) =>
         /\ \A o \in Elems \ {e} :
              /\ display'[o] = display[o]
              /\ overlays'[o] = overlays[o]
              /\ o \in hiddenShorts' <=> o \in hiddenShorts
              /\ o \in sessionVisible' <=> o \in sessionVisible
         /\ Suppressed(e) =>
              /\ e \in sessionVisible'
              /\ display'[e] = ""
              /\ overlays'[e] = [overlays[e] EXCEPT ![overlay] = "none"]]_vars

\* of at least three suppressed elements one has been toggled: it is
\* revealed, the others are still suppressed
C19_Witness ==
  /\ Cardinality(hiddenShorts) >= 3
  /\ \E e \in Elems :
       /\ sessionVisible = {e} /\ display[e] = "" /\ overlays[e] = <<"none">>
       /\ \A o \in Elems \ {e} :
            Suppressed(o) /\ display[o] = "none" /\ overlays[o] = <<"">>

\* C20: every element of sessionVisible has been suppressed before: it is
\* recorded in hiddenShorts and an overlay was inserted for it.
C20_RevealedWereSuppressed ==
  \A e \in sessionVisible : e \in hiddenShorts /\ Len(overlays[e]) >= 1

\* two elements have been revealed through the overlays hideShort() gave them
C20_Witness ==
  /\ Cardinality(sessionVisible) >= 2
  /\ \A e \in sessionVisible :
       e \in hiddenShorts /\ display[e] = "" /\ overlays[e] = <<"none">>

\* C21: the stored savedTabs list never has more than MAX_SAVED_TABS entries.
C21_StoredTabsCapped == Len(storedTabs) <= MAX_SAVED_TABS

\* saveTabs() has stored a full list out of a merged list that was longer
C21_Witness ==
  /\ call.pc = "remove"
  /\ Len(mergeTabs(call.existingTabs, call.tabsMetadata)) > MAX_SAVED_TABS
  /\ Len(storedTabs) = MAX_SAVED_TABS

\* C22: no two entries of the stored list have the same URL (the list starts
\* empty, so every saveTabs() call that finds it so must leave it so).
C22_StoredUrlsDistinct ==
  \A i, j \in 1..Len(storedTabs) :
    storedTabs[i].url = storedTabs[j].url => i = j

\* C23: when closeAndSaveAllTabs() closes its tabs and returns success, the
\* URL of every tab it closes is in the stored list.
C23_ClosedTabsAreStored ==
  [][TabsRemove =>
       /\ lastResult'.success
       /\ \A i \in 1..Len(call.tabs) : call.tabs[i] \in UrlsOf(storedTabs')]_vars

\* C24: after handleNavigation() has run for a URL that is not the homepage,
\* and while the location is not the homepage, the saved-tabs container is
\* not attached to the document.
C24_NoContainerOffHomepage ==
  (lastNav = "changed" /\ ~isHomePage(currentUrl) /\ ~isHomePage(windowUrl))
    => ~container

\* C25: a pass leaves an element the user has revealed as it is: displayed,
\* its overlays as they were, still in sessionVisible; and a pass that finds
\* every attached element already tracked changes no element, no overlay
\* and neither tracking set.
C25_PassKeepsRevealed ==
  [][PassStep =>
       /\ \A e \in sessionVisible :
            /\ display'[e] = display[e]
            /\ overlays'[e] = overlays[e]
            /\ e \in sessionVisible'
       /\ (\A e \in Elems : inDoc[e] => e \in hiddenShorts \cup sessionVisible) =>
            UNCHANGED <<hiddenShorts, sessionVisible, display, overlays>>]_vars

\* with no navigation so far, the last pass met an attached element that the
\* user had revealed, beside suppressed ones: it is still displayed, its
\* overlay hidden
C25_Witness ==
  /\ lastNav = "none" /\ lastPass.kept # {}
  /\ \E e \in sessionVisible :
       /\ inDoc[e] /\ e \notin lastPass.kept
       /\ display[e] = "" /\ overlays[e] = <<"none">>

\* C26: within one navigation session, after an element in the suppressed
\* state was toggled twice through its overlay, its display, whether its
\* overlay is shown, and its membership of hiddenShorts and of
\* sessionVisible are what they were before the first toggle.
C26_ToggleTwiceIsIdentity ==
  [][(lastToggle.n = 1 /\ lastToggle'.n = 2
        /\ lastToggle.before.hidden /\ lastToggle.before.display = "none"
        /\ lastToggle.before.overlayShown) =>
       LET e == lastToggle.elem
           before == lastToggle.before
       IN /\ display'[e] = before.display
          /\ overlayShown(overlays'[e][lastToggle.overlay]) = before.overlayShown
          /\ (e \in hiddenShorts') = before.hidden
          /\ (e \in sessionVisible') = before.visible]_vars

\* a suppressed element was revealed and re-hidden through its overlay
C26_Witness ==
  /\ lastToggle.n = 2 /\ lastToggle.before.hidden
  /\ lastToggle.before.display = "none" /\ lastToggle.before.overlayShown
  /\ Suppressed(lastToggle.elem)

\* C27: hideShort() leaves an untracked element that has no parent node, or
\* whose overlay cannot be inserted, as it was: display and overlays
\* unchanged, in neither tracking set; and a processShorts() call from which
\* no exception escapes, on a page that is not a shorts page, leaves every
\* other attached element in hiddenShorts, hidden if it was untracked.
C27_FailedInsertionSkipsOneElement ==
  [][/\ \A e \in Elems :
          (e \notin hiddenShorts \cup sessionVisible
             /\ (~inDoc[e] \/ e \in insertThrows) /\ CallHideShort(e)) =>
            /\ UNCHANGED <<display, overlays, hiddenShorts, sessionVisible>>
     /\ (~isShortsPage(windowUrl) /\ lastCall' = [op |-> "processShorts", active |-> FALSE]
           /\ CallProcessShorts) =>
          \A e \in Elems :
            IF e \notin hiddenShorts \cup sessionVisible
                 /\ (~inDoc[e] \/ e \in insertThrows)
            THEN /\ display'[e] = display[e] /\ overlays'[e] = overlays[e]
                 /\ e \notin hiddenShorts' \cup sessionVisible'
            ELSE inDoc[e] =>
                   /\ e \in hiddenShorts'
                   /\ e \notin hiddenShorts \cup sessionVisible => display'[e] = "none"]_vars

\* processShorts() met an attached element whose overlay could not be
\* inserted and suppressed an element after it in the pass
C27_Witness ==
  /\ lastCall = [op |-> "processShorts", active |-> FALSE]
  /\ ~isShortsPage(windowUrl)
  /\ \E e \in insertThrows, other \in Elems :
       /\ e < other /\ inDoc[e] /\ inDoc[other]
       /\ e \notin hiddenShorts \cup sessionVisible /\ display[e] = ""
       /\ Suppressed(other) /\ display[other] = "none"

\* the place in SHORTS_CONTAINERS of the first selector that matches e
FirstSelector(e) ==
  CHOOSE i \in 1..Len(SHORTS_CONTAINERS) :
    /\ SHORTS_CONTAINERS[i] \in MatchedBy(e)
    /\ \A j \in 1..(i - 1) : SHORTS_CONTAINERS[j] \notin MatchedBy(e)

\* C28: on every document, findShortsElements() returns the attached
\* matching elements, each exactly once, ordered by the first selector of
\* the list that matches the element and by document order among the
\* elements of one selector.
C28_FindReturnsEachMatchOnce ==
  LET found == findShortsElements
      nodes == found.nodes
  IN /\ ~found.threw
     /\ {nodes[i] : i \in 1..Len(nodes)} = {e \in Elems : inDoc[e]}
     /\ \A i, j \in 1..Len(nodes) : i < j =>
          /\ nodes[i] # nodes[j]
          /\ \/ FirstSelector(nodes[i]) < FirstSelector(nodes[j])
             \/ /\ FirstSelector(nodes[i]) = FirstSelector(nodes[j])
                /\ nodes[i] < nodes[j]

\* C30: every mutation record made by a write to the saved-tabs UI (the
\* container inserted, its content rendered, the container removed on
\* navigation) is rejected by the observer's filter, and a batch made only
\* of such records leaves the debounce timer alone.
C30_SavedTabsWritesFiltered ==
  /\ [](\A m \in records : m.by \in {"renderTabs", "remove"} => ~IsRelevant(m))
  /\ [][(ObserverCallback /\ \A m \in records : m.by \in {"renderTabs", "remove"})
          => UNCHANGED <<timers, timeoutId, batchesSinceRun>>]_vars

\* nothing of the pipeline is pending: no observer callback, no debounce or
\* navigation timer, no request without its response
Quiescent ==
  /\ phase # "loading"
  /\ records = {} /\ timers = {} /\ inflight = 0

\* C29: the passes are bounded by the events of the host page and of the
\* user (one for initialize() and at most two for each event), and once
\* these events have stopped the pipeline comes to rest for good: no record,
\* timer or response is pending, so processPage() is not called again.
C29_PipelineQuiesces ==
  /\ [](passes <= 1 + 2 * hostEvents)
  /\ <>[]Quiescent

\* the pipeline is at rest on the homepage after it rendered the saved tabs
\* and ran a pass for an event of the host page
C29_Witness ==
  /\ Quiescent /\ container /\ isHomePage(currentUrl)
  /\ passes >= 2 /\ hostEvents >= 1

\* C31: the debounced call (the one step that resets batchesSinceRun) runs
\* only when DEBOUNCE_DELAY has passed since the last qualifying batch, so
\* not while batches keep arriving sooner; it calls processPage() once and
\* leaves no debounce timer behind; and once a qualifying batch has arrived
\* the debounced call does run.
C31_DebounceTrailingEdge ==
  /\ [][(batchesSinceRun > 0 /\ batchesSinceRun' = 0) =>
          /\ sinceBatch = DEBOUNCE_DELAY
          /\ passes' = passes + 1
          /\ Pending("debouncedProcess")' = {}]_vars
  /\ (batchesSinceRun > 0) ~> (batchesSinceRun = 0)

\* the debounced pass has run, DEBOUNCE_DELAY after the last batch, and no
\* batch has arrived since
C31_Witness ==
  /\ sinceBatch = DEBOUNCE_DELAY /\ batchesSinceRun = 0 /\ passes >= 2
  /\ Pending("debouncedProcess") = {}

\* C32: each of pushState, replaceState and popstate queues
\* handleNavigation(); a handleNavigation() that finds the location different
\* from currentUrl sets currentUrl to it, empties sessionVisible and the
\* removed-buttons set, removes the saved-tabs container and sets a timeout
\* of NAV_DELAY for processPage(); that timeout expires, and its expiry (the
\* one step that leaves fewer processPage timeouts pending) runs a pass.
C32_NavigationLeadsToPass ==
  /\ [][\A signal \in NavSignals, url \in Urls :
          (navListener /\ HostNavigate(signal, url)) =>
             \E t \in timers' \ timers :
                t.cb = "handleNavigation" /\ t.remaining = NAV_CALLBACK_DELAY]_vars
  /\ [][(windowUrl # currentUrl /\ HandleNavigation) =>
          /\ currentUrl' = windowUrl
          /\ sessionVisible' = {} /\ removedButtons' = {}
          /\ container' = FALSE
          /\ \E t \in timers' \ timers :
                t.cb = "processPage" /\ t.remaining = NAV_DELAY]_vars
  /\ [][Cardinality(Pending("processPage")') < Cardinality(Pending("processPage")) =>
          passes' = passes + 1]_vars
  /\ (Pending("processPage") # {}) ~> (Pending("processPage") = {})

\* handleNavigation() saw a changed URL, removed the container and reset the
\* session, and the pass it scheduled has run on the new page
C32_Witness ==
  /\ lastNav = "changed" /\ currentUrl = windowUrl /\ ~isHomePage(windowUrl)
  /\ Pending("processPage") = {} /\ Pending("handleNavigation") = {}
  /\ lastPass.ran # {} /\ ~container /\ hiddenShorts # {}

\* C33: once GET_EXTENSION_STATE has answered {success: true, enabled: false},
\* no mutation observer is installed, history is not wrapped and popstate is
\* not heard, no timeout is set, no pass has run, and nothing of the page
\* has been written: no overlay, no display or overflow style, no scroll
\* listener, no saved-tabs container, no request in flight.
C33_DisabledNeverWrites ==
  (phase = "running" /\ ~extensionEnabled) =>
    /\ ~observer /\ ~navListener
    /\ passes = 0 /\ lastPass = NoPass /\ timers = {}
    /\ \A e \in Elems : overlays[e] = << >> /\ display[e] = ""
    /\ \A b \in Buttons : buttonDisplay[b] = ""
    /\ bodyOverflow = "" /\ listeners = << >> /\ ~isActive
    /\ ~container /\ inflight = 0
    /\ hiddenShorts = {} /\ removedButtons = {}

\* the extension is disabled, and the page has since navigated and changed
\* its shorts containers
C33_Witness ==
  /\ phase = "running" /\ ~extensionEnabled /\ ~stateFailed
  /\ windowUrl # currentUrl /\ \E e \in Elems : ~inDoc[e]

\* the earliest savedAt among tabs
OldestOf(tabs) ==
  CHOOSE oldest \in {tabs[i].savedAt : i \in DOMAIN tabs} :
    \A i \in DOMAIN tabs : oldest <= tabs[i].savedAt

\* C34: when saveTabs() writes a merged list longer than MAX_SAVED_TABS, the
\* stored list has MAX_SAVED_TABS entries, all taken from the merged list,
\* and no entry left out was saved later than an entry kept.
C34_NewestKept ==
  [][(call.pc = "set" /\ call'.pc = "remove") =>
       \E merged \in {mergeTabs(call.existingTabs, call.tabsMetadata)} :
         Len(merged) > MAX_SAVED_TABS =>
           \E kept \in {IdsOf(storedTabs')}, oldest \in {OldestOf(storedTabs')} :
              /\ Len(storedTabs') = MAX_SAVED_TABS
              /\ \A i \in DOMAIN storedTabs' :
                    \E k \in DOMAIN merged : merged[k] = storedTabs'[i]
              /\ \A k \in DOMAIN merged :
                    merged[k].id \notin kept => merged[k].savedAt <= oldest]_vars

\* a save merged more than MAX_SAVED_TABS entries, among them older stored
\* ones, and the stored list now holds only later entries
C34_Witness ==
  /\ call.pc = "remove"
  /\ Len(mergeTabs(call.existingTabs, call.tabsMetadata)) > MAX_SAVED_TABS
  /\ \E i \in DOMAIN call.existingTabs : call.existingTabs[i].savedAt = 0
  /\ Len(storedTabs) = MAX_SAVED_TABS
  /\ \A i \in DOMAIN storedTabs : storedTabs[i].savedAt = 1

\* C35: a rejected write of saveTabs() ends closeAndSaveAllTabs() with
\* {success: false, count: 0} and every open tab still open; tabs are closed
\* only by the step that follows a write that succeeded.
C35_FailedSaveClosesNothing ==
  /\ [][StorageSet(FALSE) =>
          /\ openTabs' = openTabs /\ storedTabs' = storedTabs
          /\ call' = NoCloseAndSave
          /\ lastResult'.returned
          /\ lastResult'.success = FALSE /\ lastResult'.count = 0
          /\ lastResult'.closed = << >>]_vars
  /\ [][Len(openTabs') < Len(openTabs) => call.pc = "remove"]_vars
  /\ [][(call.pc # "remove" /\ call'.pc = "remove") =>
          /\ call.pc = "set"
          /\ storedTabs' = limitTabs(mergeTabs(call.existingTabs, call.tabsMetadata))]_vars

\* the save failed: the call has returned the failure and the tabs it had
\* queried are all still open
C35_Witness ==
  /\ call = NoCloseAndSave /\ lastResult.returned
  /\ ~lastResult.success /\ lastResult.count = 0
  /\ Len(openTabs) = MaxOpen /\ storedTabs = << >>

\* C36: every call of processPage() returns with isProcessing false, a call
\* in which a stage threw included, and a timer that expires after a pass
\* that threw still enters its pass.
C36_GateReleasedAfterThrow ==
  /\ [][PassStep => isProcessing' = FALSE]_vars
  /\ [][(lastPass.threw # "none" /\ (DebounceFire \/ ProcessTimerFire)) =>
          passes' = passes + 1]_vars

\* the initial pass threw in processShorts, and a later pass has run and
\* thrown as well
C36_Witness ==
  /\ ~hasSupport /\ ~isShortsPage(currentUrl) /\ lastNav = "none"
  /\ hostEvents <= 1 /\ passes >= 2 /\ lastPass.threw # "none"
  /\ ~isProcessing

\* C37: in every reachable state each shorts element has at most one overlay
\* inserted for it, whatever passes, toggles and navigation resets came
\* before.
C37_AtMostOneOverlay == \A e \in Elems : Len(overlays[e]) <= 1

\* an element that was suppressed before a navigation has stayed attached,
\* and the pass after the reset has scanned the new page and found it
C37_Witness ==
  /\ lastNav = "changed" /\ Pending("processPage") = {}
  /\ Stages[3] \in lastPass.ran /\ lastPass.threw = "none" /\ ~lastPass.shorts
  /\ \E e \in lastPass.kept : inDoc[e] /\ Len(overlays[e]) = 1
  /\ \E e \in revealedAtNav : inDoc[e] /\ Len(overlays[e]) = 1

\* C38: in every reachable state, for every element and every overlay
\* inserted for it, the element has display none exactly when the overlay is
\* shown.
C38_ExactlyOneOfPairShown ==
  \A e \in Elems :
    \A i \in 1..Len(overlays[e]) :
      (display[e] = "none") <=> overlayShown(overlays[e][i])

\* after a navigation reset and the pass on the new page, one element is
\* still revealed behind its hidden overlay and another is hidden behind its
\* shown overlay
C38_Witness ==
  /\ lastNav = "changed" /\ Pending("processPage") = {}
  /\ \E e \in revealedAtNav :
        inDoc[e] /\ display[e] = "" /\ overlays[e] = <<"none">>
  /\ \E e \in Elems :
        Suppressed(e) /\ display[e] = "none" /\ Len(overlays[e]) = 1
          /\ overlayShown(overlays[e][1])

\* C39: a tab whose DELETE_TAB returned {success: true, deleted: true} is not
\* in the stored list afterwards, and every tab the last successful
\* saveTabs() wrote is in the stored list unless a DELETE_TAB asked for it,
\* however the reads and writes of the two handlers interleave.
C39_NoLostUpdate ==
  /\ (lastDelete.success /\ lastDelete.deleted) =>
        lastDelete.tabId \notin IdsOf(storedTabs)
  /\ \A id \in lastSaved :
        id \in IdsOf(storedTabs) \/ id \in {lastDelete.tabId, del.tabId}

====
